---- MODULE Spec2Model ----
(***************************************************************************)
(* Model of scrapper.py: reconstruction of Google Chat task state from the *)
(* "via Tasks" notification messages of a space (get_tasks), the filter on *)
(* people and spaces (filter_tasks) and the per-assignee report            *)
(* (analyze_tasks).                                                        *)
(*                                                                         *)
(* A Python str is modelled as a sequence of tokens.  A token is a chunk   *)
(* of characters that holds none of the delimiters the code looks for; the *)
(* delimiters ("@", "(", "/", " ") and the keywords the code tests with    *)
(* `in` ("via Tasks", "Created", ...) are tokens of their own.             *)
(***************************************************************************)
EXTENDS Integers, Sequences, FiniteSets, TLC

VARIABLES
    pc,               \* position of the running function
    messages,         \* get_tasks: messages returned by get_messages_for_space
    i,                \* index of the for loop in progress (0-based, as CPython's list iterator)
    tasks,            \* get_tasks: the list `tasks`
    completed_tasks,  \* get_tasks: set of task ids
    reopened_tasks,   \* get_tasks: set of task ids
    deleted_tasks,    \* get_tasks: set of task ids
    assigned_tasks,   \* get_tasks: set of strings task_id + "@" + assignee
    set_order,        \* the order in which this run iterates assigned_tasks
    first_run,        \* outcome of an earlier run of get_tasks on the same messages
    people,           \* filter_tasks: the list `people`
    spaces,           \* filter_tasks: the list `spaces`
    filtered_tasks,   \* filter_tasks: the list `filtered_tasks`
    report,           \* analyze_tasks: the rows of the DataFrame `report`
    max_retries,      \* retry_on_error: the decorator's argument
    retries,          \* retry_on_error: wrapper's counter of failed calls
    calls,            \* how many times the wrapper has called the function
    sleeps,           \* how many times the wrapper has called time.sleep
    failures,         \* per failed call, how many messages it had listed
    raised,           \* the call whose exception reached the wrapper's caller (0: none)
    page_token,       \* get_messages_for_space: page_token (0: None)
    server,           \* createTime of the messages the space holds
    date_start,       \* get_messages_for_space: date_start
    date_end,         \* get_messages_for_space: date_end
    caller,           \* which loop over the spaces runs: main's or get_formatted_tasks'
    inbox,            \* per space of the loop, the messages its listing returns
    space_index,      \* the loop over the spaces: how many spaces are done
    all_tasks         \* main: all_tasks; get_formatted_tasks: formatted_tasks

\* the locals of get_tasks other than pc, i and tasks
scanVars == <<messages, completed_tasks, reopened_tasks, deleted_tasks,
              assigned_tasks, set_order, first_run>>

\* the arguments and locals of filter_tasks and analyze_tasks
reportVars == <<people, spaces, filtered_tasks, report>>

\* the state of retry_on_error, get_messages_for_space and the space
fetchVars == <<max_retries, retries, calls, sleeps, failures, raised,
               page_token, server, date_start, date_end>>

\* the state of the loops over the spaces
loopVars == <<caller, inbox, space_index, all_tasks>>

vars == <<pc, i, tasks, scanVars, reportVars, fetchVars, loopVars>>

----------------------------------------------------------------------------
(* Bounds of the model *)

\* longest message batch a space returns
MaxLen == 4

\* longest task list given to filter_tasks and analyze_tasks
MaxTasks == 3

\* longest list of people given to filter_tasks
MaxPeople == 2

----------------------------------------------------------------------------
(* Python str and list operations, on token sequences *)

\* `tok in s`
Contains(s, tok) == \E k \in 1..Len(s) : s[k] = tok

\* s.find(tok), 1-based; only used when Contains(s, tok)
IndexOf(s, tok) == CHOOSE k \in 1..Len(s) : s[k] = tok /\ \A j \in 1..(k-1) : s[j] # tok

\* s.split(sep): always at least one piece
RECURSIVE Split(_, _)
Split(s, sep) ==
    IF ~Contains(s, sep) THEN <<s>>
    ELSE LET k == IndexOf(s, sep)
         IN  <<SubSeq(s, 1, k-1)>> \o Split(SubSeq(s, k+1, Len(s)), sep)

\* s.strip(): drops leading and trailing whitespace
RECURSIVE Strip(_)
Strip(s) ==
    IF s = <<>> THEN s
    ELSE IF Head(s) = " " THEN Strip(Tail(s))
    ELSE IF s[Len(s)] = " " THEN Strip(SubSeq(s, 1, Len(s)-1))
    ELSE s

\* list.remove(x): removes the first element equal to x
RemoveAt(l, k) == SubSeq(l, 1, k-1) \o SubSeq(l, k+1, Len(l))

FirstEqual(l, x) == CHOOSE k \in 1..Len(l) : l[k] = x /\ \A j \in 1..(k-1) : l[j] # x

----------------------------------------------------------------------------
(* The messages a space can return *)

\* the space of the current iteration of a loop over the spaces (lines 326,
\* 418); after the last iteration the loop variable keeps the last space
current_space == spaces[IF space_index < Len(spaces) THEN space_index + 1 ELSE Len(spaces)]

\* the space_name argument of get_tasks: that of the loop's call (lines
\* 330, 419), or one space when get_tasks is studied alone
space_name == IF caller = "none" THEN "spaces/S1" ELSE current_space.name

Unassigned == <<"Unassigned">>

TextCreated   == <<"Created", " ", "@", "Alice", " ", "(", "via Tasks", ")">>
TextAssignedB == <<"Assigned", " ", "@", "Bob", " ", "(", "via Tasks", ")">>
TextAssignedC == <<"Assigned", " ", "@", "Carol", " ", "(", "via Tasks", ")">>
TextCompleted == <<"Completed", " ", "(", "via Tasks", ")">>
TextDeleted   == <<"Deleted", " ", "(", "via Tasks", ")">>
TextReopened  == <<"Re-opened", " ", "(", "via Tasks", ")">>
TextChat      == <<"hello">>

ThreadOf(t) == <<"spaces", "/", "S1", "/", "threads", "/", t>>
ThreadShort == <<"spaces", "/", "S1">>

TaskTexts == {TextCreated, TextAssignedB, TextAssignedC, TextCompleted,
              TextDeleted, TextReopened}

\* text and thread name of the messages of a space: every notification for
\* task T1, four of them for task T2, one notification whose thread name is
\* too short, and one message that is no notification.  createTime is
\* given by the position in the batch (the API lists messages in creation
\* order).
MessageShapes ==
    [text : TaskTexts, thread : {ThreadOf("T1")}]
    \cup [text : {TextCreated, TextAssignedB, TextCompleted, TextDeleted},
          thread : {ThreadOf("T2")}]
    \cup {[text |-> TextCompleted, thread |-> ThreadShort],
          [text |-> TextChat, thread |-> ThreadOf("T1")]}

Stamp(shape, k) ==
    [text |-> shape.text, thread |-> shape.thread, createTime |-> k]

----------------------------------------------------------------------------
(* get_tasks, lines 180-236 *)

\* no retry wrapper and no listing in progress
FetchIdle ==
    /\ max_retries = 0
    /\ retries = 0
    /\ calls = 0
    /\ sleeps = 0
    /\ failures = <<>>
    /\ raised = 0
    /\ page_token = 0
    /\ server = {}
    /\ date_start = 0
    /\ date_end = 0

\* no loop over spaces in progress
LoopIdle ==
    /\ caller = "none"
    /\ inbox = <<>>
    /\ space_index = 0
    /\ all_tasks = <<>>

\* no earlier run
NoRun == [outcome |-> "none", tasks |-> <<>>]

Init ==
    /\ pc = "fetch"
    /\ messages = <<>>
    /\ i = 0
    /\ tasks = <<>>
    /\ completed_tasks = {}
    /\ reopened_tasks = {}
    /\ deleted_tasks = {}
    /\ assigned_tasks = {}
    /\ set_order = <<>>
    /\ first_run = NoRun
    /\ people = <<>>
    /\ spaces = <<>>
    /\ filtered_tasks = <<>>
    /\ report = <<>>
    /\ FetchIdle
    /\ LoopIdle

\* line 190: message['thread']['name'].split("/")[3]
ThreadSegments(message) == Split(message.thread, "/")

\* line 192
AssigneeOf(text) ==
    IF Contains(text, "@")
    THEN Strip(Split(Split(text, "@")[2], "(")[1])
    ELSE Unassigned

\* faulty variant of EventKind: the tests of the chain in reverse order
EventKind_LastWins(text) ==
    IF Contains(text, "Re-opened") THEN "Re-opened"
    ELSE IF Contains(text, "Deleted") THEN "Deleted"
    ELSE IF Contains(text, "Completed") THEN "Completed"
    ELSE IF Contains(text, "Assigned") THEN "Assigned"
    ELSE IF Contains(text, "Created") THEN "Created"
    ELSE "none"

\* lines 194-210: which branch of the if/elif chain a text takes
EventKind(text) ==
    IF Contains(text, "Created") THEN "Created"
    ELSE IF Contains(text, "Assigned") THEN "Assigned"
    ELSE IF Contains(text, "Completed") THEN "Completed"
    ELSE IF Contains(text, "Deleted") THEN "Deleted"
    ELSE IF Contains(text, "Re-opened") THEN "Re-opened"
    ELSE "none"

\* line 189
IsTaskMessage(message) == Contains(message.text, "via Tasks")

\* line 190 raises IndexError
RaisesIndexError(message) == Len(ThreadSegments(message)) < 4

\* lines 195-201
NewTask(message) ==
    [id           |-> ThreadSegments(message)[4],
     assignee     |-> AssigneeOf(message.text),
     status       |-> "OPEN",
     created_time |-> message.createTime,
     space_name   |-> space_name]

\* line 204
AssignedKey(message) ==
    ThreadSegments(message)[4] \o <<"@">> \o AssigneeOf(message.text)

\* line 186: get_messages_for_space is listing the messages of the space;
\* the next message of the listing arrives
GetTasks_FetchMessage ==
    /\ pc = "fetch"
    /\ Len(messages) < MaxLen
    /\ \E shape \in MessageShapes :
           messages' = Append(messages, Stamp(shape, Len(messages) + 1))
    /\ UNCHANGED <<pc, i, tasks, completed_tasks, reopened_tasks, deleted_tasks,
                   assigned_tasks, set_order, first_run>>
    /\ UNCHANGED reportVars
    /\ UNCHANGED <<fetchVars, loopVars>>

\* line 186: get_messages_for_space returns the messages listed
GetTasks_Fetch ==
    /\ pc = "fetch"
    /\ pc' = "scan"
    /\ i' = 0
    /\ UNCHANGED <<messages, tasks, completed_tasks, reopened_tasks, deleted_tasks,
                   assigned_tasks, set_order, first_run>>
    /\ UNCHANGED reportVars
    /\ UNCHANGED <<fetchVars, loopVars>>

\* line 186: get_messages_for_space raises (after its retries)
GetTasks_FetchRaises ==
    /\ pc = "fetch"
    /\ pc' = "fetch_raised"
    /\ UNCHANGED <<messages, i, tasks, completed_tasks, reopened_tasks,
                   deleted_tasks, assigned_tasks, set_order, first_run>>
    /\ UNCHANGED reportVars
    /\ UNCHANGED <<fetchVars, loopVars>>

\* the collections the first loop fills
Collected(t, a, c, d, r) ==
    [tasks |-> t, assigned_tasks |-> a, completed_tasks |-> c,
     deleted_tasks |-> d, reopened_tasks |-> r]

\* lines 189-210: the body of `for message in messages`, for a message that
\* does not raise
ScanMessage(st, message) ==
    LET kind == IF IsTaskMessage(message) THEN EventKind(message.text) ELSE "none"
    IN  IF kind = "Created"
          THEN [st EXCEPT !.tasks = Append(@, NewTask(message))]
        ELSE IF kind = "Assigned"
          THEN [st EXCEPT !.assigned_tasks = @ \cup {AssignedKey(message)}]
        ELSE IF kind = "Completed"
          THEN [st EXCEPT !.completed_tasks = @ \cup {ThreadSegments(message)[4]}]
        ELSE IF kind = "Deleted"
          THEN [st EXCEPT !.deleted_tasks = @ \cup {ThreadSegments(message)[4]}]
        ELSE IF kind = "Re-opened"
          THEN [st EXCEPT !.reopened_tasks = @ \cup {ThreadSegments(message)[4]}]
        ELSE st

\* lines 188-210: one iteration of `for message in messages`
GetTasks_Scan ==
    /\ pc = "scan"
    /\ i < Len(messages)
    /\ ~(IsTaskMessage(messages[i + 1]) /\ RaisesIndexError(messages[i + 1]))
    /\ LET st == ScanMessage(Collected(tasks, assigned_tasks, completed_tasks,
                                       deleted_tasks, reopened_tasks),
                             messages[i + 1])
       IN  /\ tasks' = st.tasks
           /\ assigned_tasks' = st.assigned_tasks
           /\ completed_tasks' = st.completed_tasks
           /\ deleted_tasks' = st.deleted_tasks
           /\ reopened_tasks' = st.reopened_tasks
    /\ i' = i + 1
    /\ UNCHANGED <<pc, messages, set_order, first_run>>
    /\ UNCHANGED reportVars
    /\ UNCHANGED <<fetchVars, loopVars>>

\* faulty variant of GetTasks_ScanRaises: the IndexError is logged and the
\* loop goes on with the next message (as get_people does with its errors)
GetTasks_ScanSwallows ==
    /\ pc = "scan"
    /\ i < Len(messages)
    /\ IsTaskMessage(messages[i + 1])
    /\ RaisesIndexError(messages[i + 1])
    /\ i' = i + 1
    /\ UNCHANGED <<pc, messages, tasks, completed_tasks, reopened_tasks,
                   deleted_tasks, assigned_tasks, set_order, first_run>>
    /\ UNCHANGED reportVars
    /\ UNCHANGED <<fetchVars, loopVars>>

\* lines 190, 212-214: the IndexError is logged and raised again
GetTasks_ScanRaises ==
    /\ pc = "scan"
    /\ i < Len(messages)
    /\ IsTaskMessage(messages[i + 1])
    /\ RaisesIndexError(messages[i + 1])
    /\ pc' = "scan_raised"
    /\ UNCHANGED <<messages, i, tasks, completed_tasks, reopened_tasks,
                   deleted_tasks, assigned_tasks, set_order, first_run>>
    /\ UNCHANGED reportVars
    /\ UNCHANGED <<fetchVars, loopVars>>

\* the orders in which a set can be iterated
Orders(S) ==
    {o \in [1..Cardinality(S) -> S] : \A a, b \in 1..Cardinality(S) : o[a] = o[b] => a = b}

\* end of the first loop; the iteration order of assigned_tasks (a set of
\* str, whose order depends on the hash seed of the process) is fixed for
\* the second loop, which does not change the set
GetTasks_ScanDone ==
    /\ pc = "scan"
    /\ i = Len(messages)
    /\ pc' = "reconcile"
    /\ i' = 0
    /\ set_order' \in Orders(assigned_tasks)
    /\ UNCHANGED <<messages, tasks, completed_tasks, reopened_tasks,
                   deleted_tasks, assigned_tasks, first_run>>
    /\ UNCHANGED reportVars
    /\ UNCHANGED <<fetchVars, loopVars>>

\* faulty variant of ApplyAssigned: without the test `tid == task['id']`
RECURSIVE ApplyAssigned_AnyTask(_, _, _)
ApplyAssigned_AnyTask(assignee, task_id, order) ==
    IF order = <<>> THEN assignee
    ELSE ApplyAssigned_AnyTask(Split(Head(order), "@")[2], task_id, Tail(order))

\* lines 222-229: the inner loop over assigned_tasks, in iteration order
RECURSIVE ApplyAssigned(_, _, _)
ApplyAssigned(assignee, task_id, order) ==
    IF order = <<>> THEN assignee
    ELSE LET new_assignment == Split(Head(order), "@")
             tid == new_assignment[1]
             t_assignee == new_assignment[2]
         IN  ApplyAssigned(IF tid = task_id THEN t_assignee ELSE assignee,
                           task_id, Tail(order))

\* lines 231-234
NewStatus(task_id, status, completed, reopened) ==
    IF task_id \in completed THEN "COMPLETED"
    ELSE IF task_id \in reopened THEN "OPEN"
    ELSE status

\* lines 219-220: tasks.remove(task) inside `for task in tasks`
AfterRemove(l, task, deleted) ==
    IF task.id \in deleted THEN RemoveAt(l, FirstEqual(l, task)) ELSE l

\* where the dict `task` (taken from index k, 1-based) is in the list after
\* line 220; 0 when it is the element that was removed
PlaceAfterRemove(l, k, deleted) ==
    IF l[k].id \in deleted
    THEN IF FirstEqual(l, l[k]) = k THEN 0 ELSE k - 1
    ELSE k

\* faulty variant of ReconcileStep: the task dict is stamped anew (with
\* created_time 0) when its assignee and status are brought up to date
ReconcileStep_Restamps(l, k, deleted, completed, reopened, order) ==
    LET task == l[k]
        removed == AfterRemove(l, task, deleted)
        place == PlaceAfterRemove(l, k, deleted)
        updated == [task EXCEPT
                      !.assignee = ApplyAssigned(task.assignee, task.id, order),
                      !.status = NewStatus(task.id, task.status, completed, reopened),
                      !.created_time = 0]
    IN  IF place = 0 THEN removed ELSE [removed EXCEPT ![place] = updated]

\* lines 217-234: one iteration of `for task in tasks`; the list iterator
\* reads tasks[i] and advances whatever the body did to the list
ReconcileStep(l, k, deleted, completed, reopened, order) ==
    LET task == l[k]
        removed == AfterRemove(l, task, deleted)
        place == PlaceAfterRemove(l, k, deleted)
        updated == [task EXCEPT
                      !.assignee = ApplyAssigned(task.assignee, task.id, order),
                      !.status = NewStatus(task.id, task.status, completed, reopened)]
    IN  IF place = 0 THEN removed ELSE [removed EXCEPT ![place] = updated]

GetTasks_Reconcile ==
    /\ pc = "reconcile"
    /\ i < Len(tasks)
    /\ tasks' = ReconcileStep(tasks, i + 1, deleted_tasks, completed_tasks,
                              reopened_tasks, set_order)
    /\ i' = i + 1
    /\ UNCHANGED <<pc, messages, completed_tasks, reopened_tasks, deleted_tasks,
                   assigned_tasks, set_order, first_run>>
    /\ UNCHANGED reportVars
    /\ UNCHANGED <<fetchVars, loopVars>>

\* line 236
GetTasks_Return ==
    /\ pc = "reconcile"
    /\ i >= Len(tasks)
    /\ pc' = "returned"
    /\ UNCHANGED <<messages, i, tasks, completed_tasks, reopened_tasks,
                   deleted_tasks, assigned_tasks, set_order, first_run>>
    /\ UNCHANGED reportVars
    /\ UNCHANGED <<fetchVars, loopVars>>

Next ==
    \/ GetTasks_FetchMessage
    \/ GetTasks_Fetch
    \/ GetTasks_FetchRaises
    \/ GetTasks_Scan
    \/ GetTasks_ScanRaises
    \/ GetTasks_ScanDone
    \/ GetTasks_Reconcile
    \/ GetTasks_Return

Spec == Init /\ [][Next]_vars

\* get_tasks is called again on the same messages (a re-run of the report
\* on an unchanged space): a new process, with new locals
GetTasks_Rerun ==
    /\ pc \in {"returned", "scan_raised"}
    /\ first_run = NoRun
    /\ first_run' = [outcome |-> pc, tasks |-> tasks]
    /\ pc' = "scan"
    /\ i' = 0
    /\ tasks' = <<>>
    /\ completed_tasks' = {}
    /\ reopened_tasks' = {}
    /\ deleted_tasks' = {}
    /\ assigned_tasks' = {}
    /\ set_order' = <<>>
    /\ UNCHANGED <<messages, reportVars>>
    /\ UNCHANGED <<fetchVars, loopVars>>

NextRerun == Next \/ GetTasks_Rerun

SpecRerun == Init /\ [][NextRerun]_vars

----------------------------------------------------------------------------
(* normalize_name, lines 91-99.  A name is a sequence of characters; the   *)
(* characters of the model are ASCII letters, the space, and three         *)
(* non-ASCII ones written by name: "e_acute" (U+00E9), which NFKD          *)
(* decomposes into "e" and "combining_acute" (U+0301), and "o_slash"       *)
(* (U+00F8), which has no decomposition.                                   *)

\* line 94: unicodedata.normalize('NFKD', name), one character
NFKD(c) == IF c = "e_acute" THEN <<"e", "combining_acute">> ELSE <<c>>

\* line 96: encode('ascii', 'ignore') drops these
NonAscii == {"e_acute", "combining_acute", "o_slash"}

\* line 98: str.lower(), one character
Lower(c) ==
    IF c = "J" THEN "j"
    ELSE IF c = "O" THEN "o"
    ELSE IF c = "S" THEN "s"
    ELSE IF c = "E" THEN "e"
    ELSE IF c = "B" THEN "b"
    ELSE c

RECURSIVE Decompose(_)
Decompose(s) == IF s = <<>> THEN <<>> ELSE NFKD(Head(s)) \o Decompose(Tail(s))

IsAscii(c) == c \notin NonAscii

normalize_name(name) ==
    LET normalized == SelectSeq(Decompose(name), IsAscii)
    IN  Strip([k \in 1..Len(normalized) |-> Lower(normalized[k])])

----------------------------------------------------------------------------
(* filter_tasks, lines 262-274 *)

Jose_accent == <<"J", "o", "s", "e_acute">>
jose_plain  == <<"j", "o", "s", "e">>
JOSE_padded == <<" ", "J", "O", "S", "E", " ">>
Bob         == <<"B", "o", "b">>
Bob_slash   == <<"B", "o_slash", "b">>

AssigneeNames == {Jose_accent, jose_plain, Bob}
PeopleNames   == {jose_plain, JOSE_padded, Bob_slash}
SpaceNames    == {"spaces/S1", "spaces/S2"}

\* lists of at most n elements of S
ListsUpTo(S, n) == UNION {[1..k -> S] : k \in 0..n}

\* a task as get_tasks builds it; the id tells the tasks of a list apart
TaskOf(k, assignee, status, space) ==
    [id |-> <<ToString(k)>>, assignee |-> assignee, status |-> status,
     created_time |-> k, space_name |-> space]

FilterInputs ==
    {[k \in 1..Len(l) |-> TaskOf(k, l[k][1], "OPEN", l[k][2])] :
        l \in ListsUpTo(AssigneeNames \X SpaceNames, MaxTasks)}

SpaceLists == {<<>>, <<"spaces/S1">>, <<"spaces/S2">>, <<"spaces/S1", "spaces/S2">>}

InitFilter ==
    /\ pc = "filter"
    /\ i = 0
    /\ tasks \in FilterInputs
    /\ people \in ListsUpTo(PeopleNames, MaxPeople)
    /\ spaces \in SpaceLists
    /\ filtered_tasks = <<>>
    /\ report = <<>>
    /\ messages = <<>>
    /\ completed_tasks = {}
    /\ reopened_tasks = {}
    /\ deleted_tasks = {}
    /\ assigned_tasks = {}
    /\ set_order = <<>>
    /\ first_run = NoRun
    /\ FetchIdle
    /\ LoopIdle

\* line 265
normalized_people(ps) == {normalize_name(ps[k]) : k \in 1..Len(ps)}

\* line 266
normalized_spaces(ss) == {ss[k] : k \in 1..Len(ss)}

\* faulty variant of FilterKeeps: the assignee is compared as written
FilterKeeps_RawAssignee(task, ps, ss) ==
    task.assignee \in normalized_people(ps) /\ task.space_name \in normalized_spaces(ss)

\* lines 271-272
FilterKeeps(task, ps, ss) ==
    LET normalized_assignee == normalize_name(task.assignee)
    IN  normalized_assignee \in normalized_people(ps)
        /\ task.space_name \in normalized_spaces(ss)

\* lines 269-273: one iteration of `for task in tasks`
FilterTasks_Step ==
    /\ pc = "filter"
    /\ i < Len(tasks)
    /\ filtered_tasks' = IF FilterKeeps(tasks[i + 1], people, spaces)
                         THEN Append(filtered_tasks, tasks[i + 1])
                         ELSE filtered_tasks
    /\ i' = i + 1
    /\ UNCHANGED <<pc, tasks, people, spaces, report, scanVars>>
    /\ UNCHANGED <<fetchVars, loopVars>>

\* line 274
FilterTasks_Return ==
    /\ pc = "filter"
    /\ i >= Len(tasks)
    /\ pc' = "filtered"
    /\ UNCHANGED <<i, tasks, scanVars, reportVars>>
    /\ UNCHANGED <<fetchVars, loopVars>>

NextFilter == FilterTasks_Step \/ FilterTasks_Return

SpecFilter == InitFilter /\ [][NextFilter]_vars

----------------------------------------------------------------------------
(* analyze_tasks, lines 238-260.  A Series is a function from its index to *)
(* its values; the DataFrame `report` after reset_index is the sequence of *)
(* its rows.                                                               *)

ReportNames == {<<"Alice">>, <<"Bob">>, Unassigned}

AnalyzeInputs ==
    {[k \in 1..Len(l) |-> TaskOf(k, l[k][1], l[k][2], space_name)] :
        l \in ListsUpTo(ReportNames \X {"OPEN", "COMPLETED"}, MaxTasks)}

InitAnalyze ==
    /\ pc = "analyze"
    /\ FetchIdle
    /\ LoopIdle
    /\ i = 0
    /\ tasks \in AnalyzeInputs
    /\ people = <<>>
    /\ spaces = <<>>
    /\ filtered_tasks = <<>>
    /\ report = <<>>
    /\ messages = <<>>
    /\ completed_tasks = {}
    /\ reopened_tasks = {}
    /\ deleted_tasks = {}
    /\ assigned_tasks = {}
    /\ set_order = <<>>
    /\ first_run = NoRun

\* df.groupby('assignee').size(): one entry per assignee of the rows
GroupSize(rows) ==
    [a \in {rows[k].assignee : k \in 1..Len(rows)} |->
        Cardinality({k \in 1..Len(rows) : rows[k].assignee = a})]

\* groupby sorts its keys: str order, by the characters' code points
CodePointOrder == <<"Alice", "Bob", "Unassigned">>

CodePoint(tok) == CHOOSE k \in 1..Len(CodePointOrder) : CodePointOrder[k] = tok

RECURSIVE StrLess(_, _)
StrLess(a, b) ==
    IF b = <<>> THEN FALSE
    ELSE IF a = <<>> THEN TRUE
    ELSE IF Head(a) = Head(b) THEN StrLess(Tail(a), Tail(b))
    ELSE CodePoint(Head(a)) < CodePoint(Head(b))

SortedIndex(S) ==
    CHOOSE o \in Orders(S) : \A a, b \in 1..Cardinality(S) : a < b => StrLess(o[a], o[b])

\* line 247
total_tasks(rows) == GroupSize(rows)

IsCompleted(task) == task.status = "COMPLETED"

\* faulty variant of completed_by_assignee: without the selection of the
\* rows whose status is COMPLETED
completed_by_assignee_AnyStatus(rows) == GroupSize(rows)

\* line 248
completed_by_assignee(rows) == GroupSize(SelectSeq(rows, IsCompleted))

\* faulty variant of ConcatIndex: pd.concat(..., join='inner')
ConcatIndex_Inner(total, completed) == (DOMAIN total) \cap (DOMAIN completed)

\* line 251: pd.concat(axis=1) joins the two Series on the union of their
\* indexes
ConcatIndex(total, completed) == (DOMAIN total) \cup (DOMAIN completed)

\* line 251: a missing value of the join is NaN, and fillna(0) makes it 0
Filled(series, a) == IF a \in DOMAIN series THEN series[a] ELSE 0

\* lines 244-258: the rows of the report, in index order
ReportRows(rows) ==
    LET total == total_tasks(rows)
        completed == completed_by_assignee(rows)
        index == SortedIndex(ConcatIndex(total, completed))
    IN  [k \in 1..Len(index) |->
            [assignee        |-> index[k],
             tasks_received  |-> Filled(total, index[k]),
             tasks_completed |-> Filled(completed, index[k]),
             \* line 254: the quotient, as numerator and denominator
             completion_rate |-> <<Filled(completed, index[k]), Filled(total, index[k])>>]]

\* lines 240-260
AnalyzeTasks ==
    /\ pc = "analyze"
    /\ report' = IF tasks = <<>> THEN <<>> ELSE ReportRows(tasks)
    /\ pc' = "analyzed"
    /\ UNCHANGED <<i, tasks, people, spaces, filtered_tasks, scanVars>>
    /\ UNCHANGED <<fetchVars, loopVars>>

NextAnalyze == AnalyzeTasks

SpecAnalyze == InitAnalyze /\ [][NextAnalyze]_vars

----------------------------------------------------------------------------
(* Vocabulary of the claims *)

\* the messages of the batch that are task events of the given kind
EventsOfKind(kind) ==
    {k \in 1..Len(messages) :
        /\ IsTaskMessage(messages[k])
        /\ ~RaisesIndexError(messages[k])
        /\ EventKind(messages[k].text) = kind}

TaskIdOf(message) == ThreadSegments(message)[4]

\* the task ids that have a message of the given kind in the batch
IdsWith(kind) == {TaskIdOf(messages[k]) : k \in EventsOfKind(kind)}

\* a "via Tasks" message whose thread name has fewer than four segments
Malformed(message) == IsTaskMessage(message) /\ RaisesIndexError(message)

HasMalformed == \E k \in 1..Len(messages) : Malformed(messages[k])

ReturnedIds == {tasks[k].id : k \in 1..Len(tasks)}

\* the assignees named by the 'Assigned' messages of a task id
AssignedNames(id) ==
    {AssigneeOf(messages[k].text) :
        k \in {j \in EventsOfKind("Assigned") : TaskIdOf(messages[j]) = id}}

\* createTime of the first 'Created' message of a task id
FirstCreatedTime(id) ==
    LET ks == {k \in EventsOfKind("Created") : TaskIdOf(messages[k]) = id}
    IN  messages[CHOOSE k \in ks : \A j \in ks : k <= j].createTime

\* the whole of get_tasks on a batch without malformed messages, with the
\* set iterated in the given order
RECURSIVE ScanFrom(_, _, _)
ScanFrom(st, batch, k) ==
    IF k > Len(batch) THEN st
    ELSE ScanFrom(ScanMessage(st, batch[k]), batch, k + 1)

RECURSIVE ReconcileFrom(_, _, _, _)
ReconcileFrom(l, k, st, order) ==
    IF k > Len(l) THEN l
    ELSE ReconcileFrom(ReconcileStep(l, k, st.deleted_tasks, st.completed_tasks,
                                     st.reopened_tasks, order),
                       k + 1, st, order)

GetTasksOn(batch, order) ==
    LET st == ScanFrom(Collected(<<>>, {}, {}, {}, {}), batch, 1)
    IN  ReconcileFrom(st.tasks, 1, st, order)

----------------------------------------------------------------------------
(* Claims about get_tasks *)

\* C1: every task id that has both a 'Created' and a 'Deleted' message in
\* the batch is absent from the returned task list.
C1_DeletionPrecedence ==
    pc = "returned" =>
        \A id \in IdsWith("Created") \cap IdsWith("Deleted") : id \notin ReturnedIds

\* C2: a returned task whose id has a 'Created', a 'Completed' and a
\* 'Re-opened' message (and no 'Deleted' message) has status OPEN.
C2_ReopenOverComplete ==
    pc = "returned" =>
        \A k \in 1..Len(tasks) :
            (/\ tasks[k].id \in IdsWith("Completed")
             /\ tasks[k].id \in IdsWith("Re-opened")
             /\ tasks[k].id \notin IdsWith("Deleted"))
            => tasks[k].status = "OPEN"

\* C3: every returned task whose id has an 'Assigned' message has the
\* assignee named by an 'Assigned' message for that id.
C3_AssignmentOverride ==
    pc = "returned" =>
        \A k \in 1..Len(tasks) :
            tasks[k].id \in IdsWith("Assigned")
            => tasks[k].assignee \in AssignedNames(tasks[k].id)

\* C4: every returned task whose id has a 'Completed' and no 'Re-opened'
\* message has status COMPLETED, and every returned task whose id has no
\* 'Completed' message has status OPEN.
C4_StatusReconciliation ==
    pc = "returned" =>
        \A k \in 1..Len(tasks) :
            /\ (tasks[k].id \in IdsWith("Completed") \ IdsWith("Re-opened"))
                  => tasks[k].status = "COMPLETED"
            /\ tasks[k].id \notin IdsWith("Completed")
                  => tasks[k].status = "OPEN"

\* C5: the returned list holds at most one task per task id, and its
\* created_time is that of the first 'Created' message of the id.
C5_DuplicateCreation ==
    pc = "returned" =>
        /\ \A a, b \in 1..Len(tasks) : tasks[a].id = tasks[b].id => a = b
        /\ \A k \in 1..Len(tasks) :
              tasks[k].created_time = FirstCreatedTime(tasks[k].id)

\* a message that refers to a task id outside `created`
OrphanOf(message, created) ==
    /\ IsTaskMessage(message)
    /\ ~RaisesIndexError(message)
    /\ EventKind(message.text) \in {"Assigned", "Completed", "Deleted", "Re-opened"}
    /\ TaskIdOf(message) \notin created

\* the messages of the batch that refer to a task id no 'Created' message has
Orphan(message) == OrphanOf(message, IdsWith("Created"))

\* the batch without its orphan messages, and the order in which the set
\* of the remaining assignments is iterated
WithoutOrphans ==
    LET created == IdsWith("Created")
        Stays(message) == ~OrphanOf(message, created)
    IN  SelectSeq(messages, Stays)

OrderWithoutOrphans ==
    LET created == IdsWith("Created")
        Stays(key) == Split(key, "@")[1] \in created
    IN  SelectSeq(set_order, Stays)

\* C6: every returned task id has a 'Created' message; a message that
\* refers to a task id without 'Created' message raises nothing, and the
\* returned list is the one get_tasks returns for the batch without those
\* messages.
C6_UnknownReferenceNoOp ==
    /\ pc = "returned" =>
          /\ ReturnedIds \subseteq IdsWith("Created")
          /\ tasks = GetTasksOn(WithoutOrphans, OrderWithoutOrphans)
    /\ pc = "scan_raised" => ~Orphan(messages[i + 1])

\* reached: get_tasks returned a task for a batch that also holds a
\* 'Deleted' and an 'Assigned' message for a task id never created
C6_Witness ==
    /\ pc = "returned"
    /\ Len(tasks) > 0
    /\ \E k \in EventsOfKind("Deleted") : Orphan(messages[k])
    /\ \E k \in EventsOfKind("Assigned") : Orphan(messages[k])

\* C7: a batch with a malformed 'via Tasks' message never gets past the
\* first loop: get_tasks raises, and returns no list.
C7_MalformedPropagation ==
    pc \in {"reconcile", "returned"} => ~HasMalformed

\* reached: get_tasks raised on a malformed message that valid messages
\* precede (a task was already built) and follow
C7_Witness ==
    /\ pc = "scan_raised"
    /\ Len(tasks) > 0
    /\ i + 1 < Len(messages)
    /\ ~Malformed(messages[Len(messages)])

\* C9: a second run of get_tasks on the same messages returns the list
\* the first run returned.
C9_Determinism ==
    (pc = "returned" /\ first_run.outcome = "returned") => tasks = first_run.tasks

----------------------------------------------------------------------------
(* Claims about filter_tasks *)

\* the people of the allow-list, and whether two names are the same person
\* once accents, case and surrounding blanks are set aside
AllowedPerson(name) ==
    \E k \in 1..Len(people) : normalize_name(people[k]) = normalize_name(name)

AllowedSpace(space) == \E k \in 1..Len(spaces) : spaces[k] = space

ShouldKeep(task) == AllowedPerson(task.assignee) /\ AllowedSpace(task.space_name)

\* C10: filter_tasks returns exactly the tasks whose normalized assignee is
\* a normalized allowed person and whose space is an allowed space, in the
\* order of the input, and no step of it changes the input list, a task of
\* it, or the allow-lists.
C10_TaskFilter ==
    /\ [](pc = "filtered" => filtered_tasks = SelectSeq(tasks, ShouldKeep))
    /\ [][tasks' = tasks /\ people' = people /\ spaces' = spaces]_vars

\* reached: filter_tasks returned a list that keeps a task whose assignee is
\* written differently from every allowed person, and drops one task for
\* its assignee and one for its space
C10_Witness ==
    /\ pc = "filtered"
    /\ \E k \in 1..Len(filtered_tasks) :
          \A j \in 1..Len(people) : people[j] # filtered_tasks[k].assignee
    /\ \E k \in 1..Len(tasks) :
          ~AllowedPerson(tasks[k].assignee) /\ AllowedSpace(tasks[k].space_name)
    /\ \E k \in 1..Len(tasks) :
          AllowedPerson(tasks[k].assignee) /\ ~AllowedSpace(tasks[k].space_name)

----------------------------------------------------------------------------
(* Claims about analyze_tasks *)

TasksOf(a) == {k \in 1..Len(tasks) : tasks[k].assignee = a}

CompletedTasksOf(a) == {k \in TasksOf(a) : tasks[k].status = "COMPLETED"}

RowsOf(a) == {k \in 1..Len(report) : report[k].assignee = a}

\* C8: the report has exactly one row per assignee of the tasks and no
\* other row (none for no tasks); the row's tasks_received is the number of
\* the assignee's tasks and its tasks_completed the number of those with
\* status COMPLETED.
C8_AggregationCorrectness ==
    pc = "analyzed" =>
        /\ \A k \in 1..Len(report) : TasksOf(report[k].assignee) # {}
        /\ \A j \in 1..Len(tasks) : Cardinality(RowsOf(tasks[j].assignee)) = 1
        /\ \A k \in 1..Len(report) :
              /\ report[k].tasks_received = Cardinality(TasksOf(report[k].assignee))
              /\ report[k].tasks_completed =
                    Cardinality(CompletedTasksOf(report[k].assignee))

\* reached: a report of several rows, one of an assignee with two tasks of
\* which one is completed, one of an assignee with no completed task
C8_Witness ==
    /\ pc = "analyzed"
    /\ \E k \in 1..Len(report) :
          report[k].tasks_received = 2 /\ report[k].tasks_completed = 1
    /\ \E k \in 1..Len(report) :
          report[k].tasks_received = 1 /\ report[k].tasks_completed = 0

\* ---------------------------------------------------------------------
\* retry_on_error around get_messages_for_space
\* ---------------------------------------------------------------------

\* the largest createTime and date of the listing specification
MaxTime == 4

\* the largest max_retries the decorator is given
MaxRetries == 3

\* how many messages the service puts on one page
PageSize == 1

\* the other state while the wrapper runs
OutsideFetch ==
    /\ i = 0
    /\ tasks = <<>>
    /\ completed_tasks = {}
    /\ reopened_tasks = {}
    /\ deleted_tasks = {}
    /\ assigned_tasks = {}
    /\ set_order = <<>>
    /\ first_run = NoRun
    /\ people = <<>>
    /\ spaces = <<>>
    /\ filtered_tasks = <<>>
    /\ report = <<>>
    /\ LoopIdle

\* wrapper is entered (line 60) with some max_retries, for a space holding
\* some messages and some date range
InitFetch ==
    /\ pc = "wrapper"
    /\ max_retries \in 0..MaxRetries
    /\ retries = 0
    /\ calls = 0
    /\ sleeps = 0
    /\ failures = <<>>
    /\ raised = 0
    /\ page_token = 0
    /\ messages = <<>>
    /\ server \in SUBSET (0..MaxTime)
    /\ date_start \in 0..MaxTime
    /\ date_end \in 0..MaxTime
    /\ OutsideFetch

\* line 145: createTime > "{date_start}" AND createTime < "{date_end}"
InFilter(createTime, start, end) == createTime > start /\ createTime < end

\* the times of S in ascending order
RECURSIVE Ascending(_)
Ascending(S) ==
    IF S = {} THEN <<>>
    ELSE LET least == CHOOSE t \in S : \A u \in S : t <= u
         IN  <<least>> \o Ascending(S \ {least})

\* the messages of the space that pass the filter of line 145, as the
\* service lists them
Listed(times, start, end) ==
    LET pass == Ascending({t \in times : InFilter(t, start, end)})
    IN  [k \in 1..Len(pass) |-> [createTime |-> pass[k]]]

\* lines 142-146: the response to list(...).execute() for a page token
\* (0 stands for None); a page that is not the last carries nextPageToken
ListResponse(times, start, end, token) ==
    LET all == Listed(times, start, end)
        from == IF token = 0 THEN 1 ELSE token
        upto == IF from + PageSize - 1 < Len(all)
                THEN from + PageSize - 1 ELSE Len(all)
    IN  [messages |-> SubSeq(all, from, upto),
         nextPageToken |-> IF upto < Len(all) THEN upto + 1 ELSE 0]

\* line 61 exits the loop: line 71 returns None
Wrapper_ReturnNone ==
    /\ pc = "wrapper"
    /\ ~(retries < max_retries)
    /\ pc' = "returned_none"
    /\ UNCHANGED <<messages, max_retries, retries, calls, sleeps, failures,
                   raised, page_token, server, date_start, date_end>>
    /\ UNCHANGED <<i, tasks, completed_tasks, reopened_tasks, deleted_tasks,
                   assigned_tasks, set_order, first_run, reportVars, loopVars>>

Wrapper_Call_KeepsMessages ==
    /\ pc = "wrapper"
    /\ retries < max_retries
    /\ calls' = calls + 1
    /\ page_token' = 0
    /\ messages' = messages
    /\ pc' = "list"
    /\ UNCHANGED <<max_retries, retries, sleeps, failures, raised, server,
                   date_start, date_end>>
    /\ UNCHANGED <<i, tasks, completed_tasks, reopened_tasks, deleted_tasks,
                   assigned_tasks, set_order, first_run, reportVars, loopVars>>

\* lines 61-63 call the function, whose lines 139-140 start a fresh listing
Wrapper_Call ==
    /\ pc = "wrapper"
    /\ retries < max_retries
    /\ calls' = calls + 1
    /\ page_token' = 0
    /\ messages' = <<>>
    /\ pc' = "list"
    /\ UNCHANGED <<max_retries, retries, sleeps, failures, raised, server,
                   date_start, date_end>>
    /\ UNCHANGED <<i, tasks, completed_tasks, reopened_tasks, deleted_tasks,
                   assigned_tasks, set_order, first_run, reportVars, loopVars>>

\* lines 142-151: one page is listed and appended; the listing returns at
\* the first page without nextPageToken, and the wrapper returns its result
GetMessages_Page ==
    /\ pc = "list"
    /\ LET response == ListResponse(server, date_start, date_end, page_token)
       IN  /\ messages' = messages \o response.messages
           /\ page_token' = response.nextPageToken
           /\ pc' = IF response.nextPageToken = 0 THEN "fetched" ELSE "list"
    /\ UNCHANGED <<max_retries, retries, calls, sleeps, failures, raised,
                   server, date_start, date_end>>
    /\ UNCHANGED <<i, tasks, completed_tasks, reopened_tasks, deleted_tasks,
                   assigned_tasks, set_order, first_run, reportVars, loopVars>>

GetMessages_PageRaises_SleepsFirst ==
    /\ pc = "list"
    /\ retries' = retries + 1
    /\ failures' = Append(failures, Len(messages))
    /\ pc' = "sleep"
    /\ raised' = raised
    /\ UNCHANGED <<messages, max_retries, calls, sleeps, page_token, server,
                   date_start, date_end>>
    /\ UNCHANGED <<i, tasks, completed_tasks, reopened_tasks, deleted_tasks,
                   assigned_tasks, set_order, first_run, reportVars, loopVars>>

\* execute() (line 146) raises; lines 64-69: the wrapper counts the failed
\* call and re-raises its exception when that was the last allowed call
GetMessages_PageRaises ==
    /\ pc = "list"
    /\ retries' = retries + 1
    /\ failures' = Append(failures, Len(messages))
    /\ IF retries + 1 = max_retries
       THEN pc' = "fetch_failed" /\ raised' = calls
       ELSE pc' = "sleep" /\ raised' = raised
    /\ UNCHANGED <<messages, max_retries, calls, sleeps, page_token, server,
                   date_start, date_end>>
    /\ UNCHANGED <<i, tasks, completed_tasks, reopened_tasks, deleted_tasks,
                   assigned_tasks, set_order, first_run, reportVars, loopVars>>

\* line 70: time.sleep(delay), then back to the loop test of line 61
Wrapper_Sleep ==
    /\ pc = "sleep"
    /\ sleeps' = sleeps + 1
    /\ pc' = "wrapper"
    /\ UNCHANGED <<messages, max_retries, retries, calls, failures, raised,
                   page_token, server, date_start, date_end>>
    /\ UNCHANGED <<i, tasks, completed_tasks, reopened_tasks, deleted_tasks,
                   assigned_tasks, set_order, first_run, reportVars, loopVars>>

NextFetch ==
    \/ Wrapper_Call
    \/ Wrapper_ReturnNone
    \/ GetMessages_Page
    \/ GetMessages_PageRaises
    \/ Wrapper_Sleep

SpecFetch == InitFetch /\ [][NextFetch]_vars

\* the wrapper is sequential code: a call returns or raises, a sleep ends
SpecFetchFair == SpecFetch /\ WF_vars(NextFetch)

\* C11: the messages returned for a date range are exactly those of the
\* space with date_start <= createTime < date_end
C11_TimeWindow ==
    pc = "fetched" =>
        {messages[k].createTime : k \in 1..Len(messages)}
            = {t \in server : date_start <= t /\ t < date_end}

\* the wrapper has returned a list or raised to its caller
FetchOver == pc \in {"fetched", "fetch_failed"}

\* C16: with max_retries >= 1, the function is called at most max_retries
\* times; the wrapper returns the first success and calls no more; when
\* every call raises, the last call's exception reaches the caller; a
\* delay follows every failed call but the last; the wrapper terminates
C16_RetryProtocol ==
    /\ [](max_retries >= 1 =>
            /\ calls <= max_retries
            /\ pc # "returned_none"
            /\ pc = "fetched" =>
                  /\ calls = retries + 1
                  /\ Len(failures) = calls - 1
                  /\ sleeps = calls - 1
                  /\ raised = 0
            /\ pc = "fetch_failed" =>
                  /\ calls = max_retries
                  /\ Len(failures) = max_retries
                  /\ raised = max_retries
                  /\ sleeps = max_retries - 1
            /\ pc \in {"wrapper", "list"} => sleeps = retries
            /\ pc = "sleep" => sleeps = retries - 1)
    /\ [][~FetchOver]_vars
    /\ [](max_retries >= 1 => <>FetchOver)

\* three calls were allowed and all three raised: two delays were taken
\* and the third call's exception reached the caller
C16_Witness ==
    /\ max_retries = 3
    /\ pc = "fetch_failed"
    /\ calls = 3
    /\ raised = 3
    /\ sleeps = 2

\* the pages of a complete listing, from the first page token
RECURSIVE PagesFrom(_, _, _, _)
PagesFrom(times, start, end, token) ==
    LET response == ListResponse(times, start, end, token)
    IN  IF response.nextPageToken = 0 THEN response.messages
        ELSE response.messages
                \o PagesFrom(times, start, end, response.nextPageToken)

\* C17: the list returned by a successful call is the messages of the
\* pages of that attempt, each once and in page order, whatever earlier
\* failed attempts had listed
C17_PaginationUnderRetry ==
    pc = "fetched" =>
        messages = PagesFrom(server, date_start, date_end, 0)

\* a listing of three pages succeeded after an attempt that failed with
\* two pages listed
C17_Witness ==
    /\ pc = "fetched"
    /\ Len(messages) = 3 * PageSize
    /\ \E k \in 1..Len(failures) : failures[k] = 2 * PageSize

\* ---------------------------------------------------------------------
\* frame of the reconciliation
\* ---------------------------------------------------------------------

\* what a task keeps from its creation
FrameOf(task) == <<task.id, task.created_time, task.space_name>>

\* the frames of a task list, in list order
Frames(l) == [k \in 1..Len(l) |-> FrameOf(l[k])]

\* the frames that the 'Created' messages among the first n messages set
RECURSIVE CreatedFrames(_)
CreatedFrames(n) ==
    IF n = 0 THEN <<>>
    ELSE IF IsTaskMessage(messages[n]) /\ EventKind(messages[n].text) = "Created"
              /\ ~RaisesIndexError(messages[n])
         THEN Append(CreatedFrames(n - 1),
                     <<ThreadSegments(messages[n])[4], messages[n].createTime,
                       space_name>>)
         ELSE CreatedFrames(n - 1)

\* s is t with some elements left out
RECURSIVE IsSubsequence(_, _)
IsSubsequence(s, t) ==
    IF s = <<>> THEN TRUE
    ELSE IF t = <<>> THEN FALSE
    ELSE IF Head(s) = Head(t) THEN IsSubsequence(Tail(s), Tail(t))
    ELSE IsSubsequence(s, Tail(t))

\* C12: id, created_time and space_name of every task of the list are the
\* values its 'Created' message set: the first loop adds a frame only for
\* a 'Created' message, and the second loop only leaves tasks out
C12_ReconciliationFrame ==
    /\ [](pc = "scan" => Frames(tasks) = CreatedFrames(i))
    /\ [](pc \in {"reconcile", "returned"} =>
            IsSubsequence(Frames(tasks), CreatedFrames(Len(messages))))
    /\ [][pc = "reconcile" => IsSubsequence(Frames(tasks'), Frames(tasks))]_vars

\* a task was returned with a status that its 'Created' message did not
\* set, and another created task was left out
C12_Witness ==
    /\ pc = "returned"
    /\ Len(tasks) = 1
    /\ Len(CreatedFrames(Len(messages))) = 2
    /\ tasks[1].status = "COMPLETED"
    /\ \E n \in 1..Len(messages) :
          /\ EventKind(messages[n].text) = "Created"
          /\ FrameOf(tasks[1]) = FrameOf(NewTask(messages[n]))

\* ---------------------------------------------------------------------
\* get_tasks and get_people on texts with several keywords or mentions
\* ---------------------------------------------------------------------

\* longest batch of the specification of texts
MaxTexts == 3

TextCreatedPlain     == <<"Created", " ", "(", "via Tasks", ")">>
TextCompletedCreated == <<"Completed", " ", "Created", " ", "(", "via Tasks", ")">>
TextReopenedDeleted  == <<"Re-opened", " ", "Deleted", " ", "(", "via Tasks", ")">>
TextCompletedAssigned ==
    <<"Completed", " ", "Assigned", " ", "@", "Bob", " ", "(", "via Tasks", ")">>
TextUpdated          == <<"Updated", " ", "(", "via Tasks", ")">>
TextChatKeywords     == <<"Completed", " ", "Deleted">>
TextAssignedTo       ==
    <<"Assigned", " ", "@", "Alice", " to", " ", "@", "Bob", " ", "(", "via Tasks", ")">>

\* notifications whose text holds several keywords, none, a mention
\* followed by " to", or no 'via Tasks'; no message carries a sender
\* (line 165 of get_people allows that)
TextShapes ==
    [text : {TextCreated, TextCreatedPlain, TextReopenedDeleted,
             TextCompletedAssigned, TextUpdated, TextChatKeywords,
             TextAssignedTo},
     thread : {ThreadOf("T1")}]
    \cup {[text |-> TextCompletedCreated, thread |-> ThreadOf("T2")],
          [text |-> TextUpdated, thread |-> ThreadShort]}

\* line 186: the next message of the listing arrives
GetTasks_FetchText ==
    /\ pc = "fetch"
    /\ Len(messages) < MaxTexts
    /\ \E shape \in TextShapes :
           messages' = Append(messages, Stamp(shape, Len(messages) + 1))
    /\ UNCHANGED <<pc, i, tasks, completed_tasks, reopened_tasks, deleted_tasks,
                   assigned_tasks, set_order, first_run>>
    /\ UNCHANGED reportVars
    /\ UNCHANGED <<fetchVars, loopVars>>

NextTexts ==
    \/ GetTasks_FetchText
    \/ GetTasks_Fetch
    \/ GetTasks_FetchRaises
    \/ GetTasks_Scan
    \/ GetTasks_ScanRaises
    \/ GetTasks_ScanDone
    \/ GetTasks_Reconcile
    \/ GetTasks_Return

SpecTexts == Init /\ [][NextTexts]_vars

\* the five keywords in the order of the claim
KindOrder == <<"Created", "Assigned", "Completed", "Deleted", "Re-opened">>

\* the first keyword of KindOrder that the text contains
FirstPresent(text) ==
    LET present == {k \in 1..Len(KindOrder) : Contains(text, KindOrder[k])}
    IN  IF present = {} THEN "none"
        ELSE KindOrder[CHOOSE k \in present : \A j \in present : k <= j]

\* the one event of a message: that of the first keyword present when
\* the text holds 'via Tasks', none otherwise
OneEvent(message) ==
    IF IsTaskMessage(message) THEN FirstPresent(message.text) ELSE "none"

\* C13: an iteration of the first loop does what the first keyword
\* present (Created, Assigned, Completed, Deleted, Re-opened) asks, and
\* nothing else; a message without 'via Tasks' or without a keyword leaves
\* the task list and the four event sets as they are
C13_ClassificationPriority ==
    [][pc = "scan" /\ (i' = i + 1 \/ pc' = "scan_raised") =>
         LET message == messages[i + 1]
             kind == IF pc' = "scan_raised" THEN "none" ELSE OneEvent(message)
         IN  /\ tasks' = IF kind = "Created"
                         THEN Append(tasks, NewTask(message)) ELSE tasks
             /\ assigned_tasks' = IF kind = "Assigned"
                                  THEN assigned_tasks \cup {AssignedKey(message)}
                                  ELSE assigned_tasks
             /\ completed_tasks' = IF kind = "Completed"
                                   THEN completed_tasks \cup {TaskIdOf(message)}
                                   ELSE completed_tasks
             /\ deleted_tasks' = IF kind = "Deleted"
                                 THEN deleted_tasks \cup {TaskIdOf(message)}
                                 ELSE deleted_tasks
             /\ reopened_tasks' = IF kind = "Re-opened"
                                  THEN reopened_tasks \cup {TaskIdOf(message)}
                                  ELSE reopened_tasks]_vars

\* the three texts with two keywords were scanned: one task, one
\* assignment and one deletion were recorded, nothing was completed or
\* re-opened
C13_Witness ==
    /\ pc = "scan"
    /\ i = 3
    /\ {messages[k].text : k \in 1..3}
          = {TextCompletedCreated, TextReopenedDeleted, TextCompletedAssigned}
    /\ Len(tasks) = 1
    /\ Cardinality(assigned_tasks) = 1
    /\ Cardinality(deleted_tasks) = 1
    /\ completed_tasks = {}
    /\ reopened_tasks = {}

\* lines 168-173 of get_people: the name a 'via Tasks' text mentions
PeopleAssigneeOf(text) ==
    Strip(Split(Strip(Split(Split(text, "@")[2], "(")[1]), " to")[1])

\* lines 162-173 of get_people, for the messages of one space
get_people(batch) ==
    {PeopleAssigneeOf(batch[n].text) :
        n \in {k \in 1..Len(batch) : /\ IsTaskMessage(batch[k])
                                      /\ Contains(batch[k].text, "@")}}

\* a trimmed name without its trailing " to"
TrimTo(name) ==
    IF name # <<>> /\ name[Len(name)] = " to"
    THEN Strip(SubSeq(name, 1, Len(name) - 1))
    ELSE name

\* the text after the first '@' up to the first following '(', trimmed,
\* and without a trailing " to"
MentionOf(text) == TrimTo(Strip(Split(Split(text, "@")[2], "(")[1]))

\* the names mentioned by the 'via Tasks' messages of the batch
Mentions ==
    {MentionOf(messages[n].text) :
        n \in {k \in 1..Len(messages) : /\ IsTaskMessage(messages[k])
                                         /\ Contains(messages[k].text, "@")}}

\* C14: an assignee that get_tasks records is "Unassigned" or the mention
\* of a 'via Tasks' message, trimmed and without its trailing " to"; an
\* assignee other than "Unassigned" of a returned task is a name that
\* get_people collects from the same batch
C14_AssigneeExtraction ==
    /\ pc \in {"scan", "reconcile", "returned"} =>
          \A k \in 1..Len(tasks) :
              tasks[k].assignee \in {Unassigned} \cup Mentions
    /\ pc = "returned" =>
          \A k \in 1..Len(tasks) :
              tasks[k].assignee # Unassigned =>
                  tasks[k].assignee \in get_people(messages)

\* ---------------------------------------------------------------------
\* the loops over the spaces: main (lines 416-420) and
\* get_formatted_tasks (lines 322-339)
\* ---------------------------------------------------------------------

\* longest listing of one space in the specification of the loops
MaxInbox == 2

\* the spaces of the run; the second has no displayName
LoopSpaces ==
    <<[name |-> "spaces/S1", displayName |-> "Team"], [name |-> "spaces/S2"]>>

\* a space name as the tokens of a thread name
Tokens(name) ==
    IF name = "spaces/S1" THEN <<"spaces", "/", "S1">> ELSE <<"spaces", "/", "S2">>

\* line 327: space.get('displayName', space['name'])
DisplayNameOf(s) ==
    IF "displayName" \in DOMAIN s THEN s.displayName ELSE s.name

\* the notifications of a space: those of its task T1 (task ids are only
\* unique within a space), with one assignee, and one whose thread name
\* is the space name alone
LoopShapes ==
    [text : {TextCreated, TextAssignedB, TextCompleted, TextDeleted, TextReopened},
     rest : {<<"/", "threads", "/", "T1">>}]
    \cup {[text |-> TextCompleted, rest |-> <<>>]}

InitSpaces ==
    /\ pc = "loop"
    /\ caller \in {"main", "get_formatted_tasks"}
    /\ spaces = LoopSpaces
    /\ inbox = <<>>
    /\ space_index = 0
    /\ all_tasks = <<>>
    /\ messages = <<>>
    /\ i = 0
    /\ tasks = <<>>
    /\ completed_tasks = {}
    /\ reopened_tasks = {}
    /\ deleted_tasks = {}
    /\ assigned_tasks = {}
    /\ set_order = <<>>
    /\ first_run = NoRun
    /\ people = <<>>
    /\ filtered_tasks = <<>>
    /\ report = <<>>
    /\ FetchIdle

Loop_CallGetTasks_KeepsSets ==
    /\ pc = "loop"
    /\ space_index < Len(spaces)
    /\ pc' = "fetch"
    /\ messages' = <<>>
    /\ i' = 0
    /\ tasks' = <<>>
    /\ set_order' = <<>>
    /\ UNCHANGED <<completed_tasks, reopened_tasks, deleted_tasks, assigned_tasks>>
    /\ UNCHANGED <<first_run, reportVars, fetchVars, loopVars>>

\* lines 330, 419 call get_tasks for the next space; its lines 183-184
\* start from an empty list and empty sets
Loop_CallGetTasks ==
    /\ pc = "loop"
    /\ space_index < Len(spaces)
    /\ pc' = "fetch"
    /\ messages' = <<>>
    /\ i' = 0
    /\ tasks' = <<>>
    /\ set_order' = <<>>
    /\ completed_tasks' = {}
    /\ reopened_tasks' = {}
    /\ deleted_tasks' = {}
    /\ assigned_tasks' = {}
    /\ UNCHANGED <<first_run, reportVars, fetchVars, loopVars>>

\* line 186: the next message of the listing of the space arrives
GetTasks_FetchSpaceMessage ==
    /\ pc = "fetch"
    /\ Len(messages) < MaxInbox
    /\ \E shape \in LoopShapes :
           messages' = Append(messages,
                              [text |-> shape.text,
                               thread |-> Tokens(space_name) \o shape.rest,
                               createTime |-> Len(messages) + 1])
    /\ UNCHANGED <<pc, i, tasks, completed_tasks, reopened_tasks, deleted_tasks,
                   assigned_tasks, set_order, first_run>>
    /\ UNCHANGED reportVars
    /\ UNCHANGED <<fetchVars, loopVars>>

\* what the listing of a space was, for the record of the run
Listing == [listing |-> IF pc = "fetch_raised" THEN "raised" ELSE "ok",
            messages |-> messages]

\* line 420: all_tasks.extend(tasks)
Main_Extend ==
    /\ caller = "main"
    /\ pc = "returned"
    /\ all_tasks' = all_tasks \o tasks
    /\ inbox' = Append(inbox, Listing)
    /\ space_index' = space_index + 1
    /\ pc' = "loop"
    /\ UNCHANGED <<caller, i, tasks, scanVars, reportVars, fetchVars>>

\* line 419: get_tasks raises, and nothing in main catches it
Main_Raises ==
    /\ caller = "main"
    /\ pc \in {"fetch_raised", "scan_raised"}
    /\ inbox' = Append(inbox, Listing)
    /\ pc' = "loop_raised"
    /\ UNCHANGED <<caller, space_index, all_tasks, i, tasks, scanVars,
                   reportVars, fetchVars>>

\* lines 311-320
format_task_info(task, name) ==
    [id           |-> task.id,
     assignee     |-> task.assignee,
     status       |-> task.status,
     space        |-> name,
     created_at   |-> task.created_time,
     last_updated |-> task.created_time]

\* lines 331-333: the tasks of the space are formatted and appended
Formatted_Extend ==
    /\ caller = "get_formatted_tasks"
    /\ pc = "returned"
    /\ all_tasks' = all_tasks \o
           [k \in 1..Len(tasks) |-> format_task_info(tasks[k], DisplayNameOf(current_space))]
    /\ inbox' = Append(inbox, Listing)
    /\ space_index' = space_index + 1
    /\ pc' = "loop"
    /\ UNCHANGED <<caller, i, tasks, scanVars, reportVars, fetchVars>>

Formatted_Continue_Discards ==
    /\ caller = "get_formatted_tasks"
    /\ pc \in {"fetch_raised", "scan_raised"}
    /\ inbox' = Append(inbox, Listing)
    /\ space_index' = space_index + 1
    /\ all_tasks' = <<>>
    /\ pc' = "loop"
    /\ UNCHANGED <<caller, i, tasks, scanVars, reportVars, fetchVars>>

\* lines 334-336: the error of get_tasks is logged, the loop goes on
Formatted_Continue ==
    /\ caller = "get_formatted_tasks"
    /\ pc \in {"fetch_raised", "scan_raised"}
    /\ inbox' = Append(inbox, Listing)
    /\ space_index' = space_index + 1
    /\ all_tasks' = all_tasks
    /\ pc' = "loop"
    /\ UNCHANGED <<caller, i, tasks, scanVars, reportVars, fetchVars>>

\* the loop is over: line 338 returns formatted_tasks, main goes on to
\* line 423
Loop_Return ==
    /\ pc = "loop"
    /\ space_index = Len(spaces)
    /\ pc' = "loop_returned"
    /\ UNCHANGED <<messages, i, tasks, completed_tasks, reopened_tasks,
                   deleted_tasks, assigned_tasks, set_order, first_run>>
    /\ UNCHANGED <<reportVars, fetchVars, loopVars>>

NextSpaces ==
    \/ Loop_CallGetTasks
    \/ GetTasks_FetchSpaceMessage
    \/ GetTasks_Fetch
    \/ GetTasks_FetchRaises
    \/ GetTasks_Scan
    \/ GetTasks_ScanRaises
    \/ GetTasks_ScanDone
    \/ GetTasks_Reconcile
    \/ GetTasks_Return
    \/ Main_Extend
    \/ Main_Raises
    \/ Formatted_Extend
    \/ Formatted_Continue
    \/ Loop_Return

SpecSpaces == InitSpaces /\ [][NextSpaces]_vars

\* the one order of the assignments of a listing of LoopShapes (at most
\* one assignment key)
OnlyOrder(batch) ==
    CHOOSE o \in Orders(ScanFrom(Collected(<<>>, {}, {}, {}, {}), batch, 1).assigned_tasks) :
        TRUE

\* the tasks of the k-th space taken alone: get_tasks on its own listing,
\* each task carrying the name of that space
TasksOfSpace(k) ==
    LET alone == GetTasksOn(inbox[k].messages, OnlyOrder(inbox[k].messages))
    IN  [j \in 1..Len(alone) |-> [alone[j] EXCEPT !.space_name = spaces[k].name]]

RECURSIVE TasksUpTo(_)
TasksUpTo(n) ==
    IF n = 0 THEN <<>> ELSE TasksUpTo(n - 1) \o TasksOfSpace(n)

\* C15: the tasks main collects over the spaces are, space after space,
\* the tasks of each space reconstructed from its own messages alone and
\* carrying its name: no message of a space changes or removes a task of
\* another space, whatever their task ids
C15_SpaceIsolation ==
    (caller = "main" /\ pc \in {"loop", "loop_returned"}) =>
        all_tasks = TasksUpTo(space_index)

\* both spaces created a task T1, the first space also deleted its T1:
\* main collected the T1 of the second space only
C15_Witness ==
    /\ caller = "main"
    /\ pc = "loop_returned"
    /\ Len(inbox) = 2
    /\ inbox[1].messages # <<>>
    /\ \E n \in 1..Len(inbox[1].messages) : inbox[1].messages[n].text = TextDeleted
    /\ Len(all_tasks) = 1
    /\ all_tasks[1].id = <<"T1">>
    /\ all_tasks[1].space_name = "spaces/S2"

\* get_tasks succeeded for the k-th space: its listing did not raise and
\* held no message that makes line 190 raise
Succeeded(k) ==
    /\ inbox[k].listing = "ok"
    /\ \A n \in 1..Len(inbox[k].messages) : ~Malformed(inbox[k].messages[n])

\* the formatted tasks of the k-th space, none when its get_tasks failed
FormattedOfSpace(k) ==
    IF Succeeded(k)
    THEN LET alone == TasksOfSpace(k)
         IN  [j \in 1..Len(alone) |->
                 format_task_info(alone[j], DisplayNameOf(spaces[k]))]
    ELSE <<>>

RECURSIVE FormattedUpTo(_)
FormattedUpTo(n) ==
    IF n = 0 THEN <<>> ELSE FormattedUpTo(n - 1) \o FormattedOfSpace(n)

\* C18: get_formatted_tasks raises nothing; what it has collected is, in
\* space order, the formatted tasks of the spaces whose get_tasks
\* succeeded and nothing of a failed space; it returns after every space
\* was processed
C18_ErrorIsolation ==
    caller = "get_formatted_tasks" =>
        /\ pc # "loop_raised"
        /\ pc \in {"loop", "loop_returned"} => all_tasks = FormattedUpTo(space_index)
        /\ pc = "loop_returned" => space_index = Len(spaces)

\* get_formatted_tasks returned the task of the first space after
\* get_tasks had failed for the second space
C18_Witness ==
    /\ caller = "get_formatted_tasks"
    /\ pc = "loop_returned"
    /\ Len(inbox) = 2
    /\ Succeeded(1)
    /\ ~Succeeded(2)
    /\ Len(all_tasks) = 1
    /\ all_tasks[1].space = "Team"

\* the sum of tasks_received over the first n rows of the report
RECURSIVE SumReceived(_)
SumReceived(n) ==
    IF n = 0 THEN 0 ELSE SumReceived(n - 1) + report[n].tasks_received

\* the sum of tasks_completed over the first n rows of the report
RECURSIVE SumCompleted(_)
SumCompleted(n) ==
    IF n = 0 THEN 0 ELSE SumCompleted(n - 1) + report[n].tasks_completed

\* C19: for a non-empty task list, every row of the report has
\* 1 <= tasks_received and 0 <= tasks_completed <= tasks_received; the
\* tasks_received add up to the number of tasks and the tasks_completed
\* to the number of tasks whose status is COMPLETED
C19_CountConservation ==
    (pc = "analyzed" /\ tasks # <<>>) =>
        /\ \A k \in 1..Len(report) :
              /\ 1 <= report[k].tasks_received
              /\ 0 <= report[k].tasks_completed
              /\ report[k].tasks_completed <= report[k].tasks_received
        /\ SumReceived(Len(report)) = Len(tasks)
        /\ SumCompleted(Len(report)) = Len(SelectSeq(tasks, IsCompleted))

\* a report of three tasks of two assignees, one of them completed
C19_Witness ==
    /\ pc = "analyzed"
    /\ Len(tasks) = 3
    /\ Len(report) = 2
    /\ SumReceived(Len(report)) = 3
    /\ SumCompleted(Len(report)) = 1

====
